---- MODULE Spec2Model ----
(***************************************************************************)
(* Dataset partitioning and label encoding of the mask-classification      *)
(* pipeline (src/yj/dataset.py), as driven by src/joon/baseline/test.py.   *)
(*                                                                         *)
(* Strings are sequences of one-character strings, so that startswith,     *)
(* split, splitext, lower and int are computed the way Python computes     *)
(* them.  A directory tree is a constant of the model (Listing); the       *)
(* class-level lists of the dataset classes are state, shared by every     *)
(* instance of a class family exactly as Python's attribute lookup shares  *)
(* them.                                                                   *)
(***************************************************************************)
EXTENDS Integers, Sequences, FiniteSets, TLC

VARIABLES
    classLists,   \* class name -> [image_paths, mask_labels, gender_labels, age_labels]
    instances,    \* the dataset objects constructed so far, in construction order
    ncalls,       \* number of constructor calls made in this process
    args,         \* arguments of the pure function under evaluation
    ret,          \* outcome of the last operation
    loop          \* where train() stands: its program counter and its locals

vars == <<classLists, instances, ncalls, args, ret, loop>>

-----------------------------------------------------------------------------
(* Bounds of the model *)

\* constructor calls made in one process
MaxConstructions == 2

-----------------------------------------------------------------------------
(* Python strings *)

Range(s) == {s[i] : i \in 1..Len(s)}

Digits == <<"0", "1", "2", "3", "4", "5", "6", "7", "8", "9">>

Upper == <<"A", "F", "M", "L", "E">>

Lower == <<"a", "f", "m", "l", "e">>

\* str.startswith
startswith(s, prefix) ==
    /\ Len(prefix) <= Len(s)
    /\ SubSeq(s, 1, Len(prefix)) = prefix

\* str.lower, on the letters the corpus uses in upper case
lowerChar(c) ==
    IF \E i \in 1..Len(Upper) : Upper[i] = c
        THEN Lower[CHOOSE i \in 1..Len(Upper) : Upper[i] = c]
        ELSE c

lower(s) == [i \in 1..Len(s) |-> lowerChar(s[i])]

\* str.rfind of one character: the last position holding c, 0 when there is none
rfind(s, c) ==
    IF \E i \in 1..Len(s) : s[i] = c
        THEN CHOOSE i \in 1..Len(s) : s[i] = c /\ \A j \in (i+1)..Len(s) : s[j] # c
        ELSE 0

\* str.split(sep) with a one-character separator: the fields between separators
RECURSIVE split(_, _)
split(s, sep) ==
    IF \A i \in 1..Len(s) : s[i] # sep
        THEN <<s>>
        ELSE LET k == CHOOSE i \in 1..Len(s) :
                        s[i] = sep /\ \A j \in 1..(i-1) : s[j] # sep
             IN  <<SubSeq(s, 1, k-1)>> \o split(SubSeq(s, k+1, Len(s)), sep)

\* the file name taken whole as the stem, as if the extension were never stripped
splitext_identity(p) == <<p, <<>>>>

\* os.path.splitext of a file name without directory part: the extension starts
\* at the last dot, unless everything before that dot is dots
splitext(p) ==
    LET dotIndex == rfind(p, ".")
    IN  IF dotIndex > 0 /\ \E i \in 1..(dotIndex-1) : p[i] # "."
            THEN <<SubSeq(p, 1, dotIndex-1), SubSeq(p, dotIndex, Len(p))>>
            ELSE <<p, <<>>>>

\* str.strip of blanks
RECURSIVE strip(_)
strip(s) ==
    IF s = <<>> THEN s
    ELSE IF Head(s) = " " THEN strip(Tail(s))
    ELSE IF s[Len(s)] = " " THEN strip(SubSeq(s, 1, Len(s)-1))
    ELSE s

DigitVal(c) == (CHOOSE i \in 1..10 : Digits[i] = c) - 1

RECURSIVE DigitsVal(_)
DigitsVal(s) ==
    IF s = <<>> THEN 0
    ELSE DigitsVal(SubSeq(s, 1, Len(s)-1)) * 10 + DigitVal(s[Len(s)])

\* the digit groups of an int literal: digits, with single underscores allowed
\* between two digits
IsDigitGroups(body) ==
    /\ body # <<>>
    /\ Range(body) \subseteq Range(Digits) \cup {"_"}
    /\ body[1] # "_" /\ body[Len(body)] # "_"
    /\ \A i \in 1..(Len(body) - 1) : ~(body[i] = "_" /\ body[i + 1] = "_")

IsDigit(c) == c # "_"

\* int(str): blanks stripped, an optional sign, then the digit groups.
\* [ok |-> FALSE] stands for the ValueError int raises.
int(value) ==
    LET t      == strip(value)
        signed == t # <<>> /\ Head(t) \in {"+", "-"}
        body   == IF signed THEN Tail(t) ELSE t
        digits == SelectSeq(body, IsDigit)
    IN  IF IsDigitGroups(body)
            THEN [ok |-> TRUE,
                  val |-> IF signed /\ Head(t) = "-" THEN 0 - DigitsVal(digits)
                                                       ELSE DigitsVal(digits)]
            ELSE [ok |-> FALSE, val |-> 0]

-----------------------------------------------------------------------------
(* Labeling *)

MASK == 0
INCORRECT == 1
NORMAL == 2

MALE == 0
FEMALE == 1

YOUNG == 0
MIDDLE == 1
OLD == 2

\* an exception leaving a function
Raise(e) == [exc |-> e, val |-> 0]

Return(v) == [exc |-> "", val |-> v]

S_male == <<"m", "a", "l", "e">>
S_female == <<"f", "e", "m", "a", "l", "e">>

\* GenderLabels.from_str
GenderLabels_from_str(value) ==
    LET v == lower(value)
    IN  IF v = S_male THEN Return(MALE)
        ELSE IF v = S_female THEN Return(FEMALE)
        ELSE Raise("ValueError")

AgeYoungBelow == 30
AgeMiddleBelow == 60

\* from_number with the brackets closed on the right (value <= 30, value <= 60)
from_number_inclusive(value) ==
    LET n == int(value)
    IN  IF ~n.ok THEN Raise("ValueError")
        ELSE IF n.val <= AgeYoungBelow THEN Return(YOUNG)
        ELSE IF n.val <= AgeMiddleBelow THEN Return(MIDDLE)
        ELSE Return(OLD)

\* AgeLabels.from_number
AgeLabels_from_number(value) ==
    LET n == int(value)
    IN  IF ~n.ok THEN Raise("ValueError")
        ELSE IF n.val < AgeYoungBelow THEN Return(YOUNG)
        ELSE IF n.val < AgeMiddleBelow THEN Return(MIDDLE)
        ELSE Return(OLD)

S_mask == <<"m", "a", "s", "k">>
S_mask1 == S_mask \o <<"1">>
S_mask2 == S_mask \o <<"2">>
S_mask3 == S_mask \o <<"3">>
S_mask4 == S_mask \o <<"4">>
S_mask5 == S_mask \o <<"5">>
S_incorrect_mask == <<"i", "n", "c", "o", "r", "r", "e", "c", "t", "_">> \o S_mask
S_normal == <<"n", "o", "r", "m", "a", "l">>

\* MaskBaseDataset._file_names (and its copies in EvalDataset, ModelEvalDataset)
file_names ==
    [s \in {S_mask1, S_mask2, S_mask3, S_mask4, S_mask5, S_incorrect_mask, S_normal} |->
        IF s = S_incorrect_mask THEN INCORRECT
        ELSE IF s = S_normal THEN NORMAL
        ELSE MASK]

\* MaskLabelDataset._mask_labels
mask_labels_by_name ==
    [s \in {S_mask, S_incorrect_mask, S_normal} |->
        IF s = S_incorrect_mask THEN INCORRECT
        ELSE IF s = S_normal THEN NORMAL
        ELSE MASK]

-----------------------------------------------------------------------------
(* Label encoding *)

MaskWeight == 6
GenderWeight == 3

\* MaskBaseDataset.encode_multi_class
encode_multi_class(mask_label, gender_label, age_label) ==
    mask_label * MaskWeight + gender_label * GenderWeight + age_label

\* decode_multi_class without the reductions modulo 3 and 2
decode_without_modulo(multi_class_label) ==
    << multi_class_label \div 6, multi_class_label \div 3, multi_class_label % 3 >>

\* MaskBaseDataset.decode_multi_class
decode_multi_class(multi_class_label) ==
    << (multi_class_label \div 6) % 3,
       (multi_class_label \div 3) % 2,
       multi_class_label % 3 >>

\* the label MaskLabelDataset.__getitem__ and ModelEvalDataset.__getitem__ compute
encode_gender_age(gender_label, age_label) == gender_label * 3 + age_label

-----------------------------------------------------------------------------
(* The corpus on disk: os.listdir of each root, in listing order.  A file name
   and a directory name are Python strings. *)

Dir(name, files) == [name |-> name, isdir |-> TRUE, files |-> files]

File(name) == [name |-> name, isdir |-> FALSE, files |-> <<>>]

X_jpg == <<".", "j", "p", "g">>
X_png == <<".", "p", "n", "g">>

F_readme == <<"r", "e", "a", "d", "m", "e", ".", "t", "x", "t">>
F_hidden == <<".", "h", "i", "d", "d", "e", "n">> \o X_jpg
F_masked == S_mask \o <<"e", "d">> \o X_jpg
F_DS == <<".", "D", "S">>

P_1 == <<"1", "_", "m", "a", "l", "e", "_", "A", "_", "2", "5">>
P_2 == <<"2", "_", "F", "e", "m", "a", "l", "e", "_", "A", "_", "6", "0">>
P_3 == <<"3", "_", "m", "a", "l", "e", "_", "A", "_", "4", "5">>
P_4 == <<"4", "_", "n", "o", "n", "b", "i", "n", "a", "r", "y", "_", "A", "_", "3", "0">>
P_5 == <<"5", "_", "f", "e", "m", "a", "l", "e", "_", "A", "_", "-", "5">>
P_6 == <<"6", "_", "m", "a", "l", "e", "_", "A", "_", "5", "9">>
P_7 == <<"7", "_", "n", "o", "n", "b", "i", "n", "a", "r", "y", "_", "A", "_", "2", "5">>

\* root "A": three well-formed subjects of unequal size, a hidden entry, sidecars,
\*           a file without extension and a file whose stem only starts like a stem
\* root "B": a malformed subject holding no recognised file, and a negative age
\* root "C": a well-formed subject followed by a subject of unknown gender
\* root "D": five subjects of one file each, the training corpus of train()
Listing ==
    [A |-> << File(F_DS),
              Dir(P_1, << S_mask1 \o X_jpg, F_readme, S_normal >>),
              Dir(P_2, << F_hidden, S_incorrect_mask \o X_png >>),
              Dir(P_3, << F_masked >>) >>,
     B |-> << Dir(P_4, << F_readme >>),
              Dir(P_5, << S_normal \o X_jpg >>) >>,
     C |-> << Dir(P_6, << S_mask1 \o X_jpg >>),
              Dir(P_7, << S_normal \o X_png >>) >>,
     D |-> << Dir(P_1, << S_mask1 \o X_jpg >>),
              Dir(P_2, << S_mask1 \o X_jpg >>),
              Dir(P_3, << S_mask2 \o X_jpg >>),
              Dir(P_5, << S_normal \o X_jpg >>),
              Dir(P_6, << S_mask1 \o X_jpg >>) >>]

Roots == {"A", "B", "C"}

\* os.listdir(data_dir): the names of the entries of a root
listdir(data_dir) == [i \in 1..Len(Listing[data_dir]) |-> Listing[data_dir][i].name]

\* the entry of a root that has the given name
Entry(data_dir, profile) ==
    Listing[data_dir][CHOOSE i \in 1..Len(Listing[data_dir]) :
                          Listing[data_dir][i].name = profile]

\* os.path.join(data_dir, profile, file_name)
join(data_dir, profile, file_name) ==
    [dir |-> data_dir, profile |-> profile, file |-> file_name]

\* [profile for profile in profiles if not profile.startswith(".")]
RECURSIVE NotHidden(_)
NotHidden(profiles) ==
    IF profiles = <<>> THEN <<>>
    ELSE IF startswith(Head(profiles), <<".">>) THEN NotHidden(Tail(profiles))
    ELSE <<Head(profiles)>> \o NotHidden(Tail(profiles))

-----------------------------------------------------------------------------
(* Parsing a subject directory name *)

\* id, gender, race, age = profile.split("_"), then the two label parsers, in
\* the order the setup methods run them
parse_profile(profile) ==
    LET fields == split(profile, "_")
    IN  IF Len(fields) # 4 THEN Raise("ValueError")
        ELSE LET gender_label == GenderLabels_from_str(fields[2])
                 age_label    == AgeLabels_from_number(fields[4])
             IN  IF gender_label.exc # "" THEN gender_label
                 ELSE IF age_label.exc # "" THEN age_label
                 ELSE Return([gender |-> gender_label.val, age |-> age_label.val])

\* parse_profile and the stem of splitext, tabulated once for the names of the corpus
AllProfiles == UNION {Range(listdir(d)) : d \in DOMAIN Listing}

AllFiles ==
    UNION {UNION {Range(Listing[d][i].files) : i \in 1..Len(Listing[d])} : d \in DOMAIN Listing}

ProfileTable == [profile \in AllProfiles |-> parse_profile(profile)]

StemTable == [file_name \in AllFiles |-> splitext(file_name)[1]]

-----------------------------------------------------------------------------
(* Dataset classes *)

Classes == {"MaskBaseDataset", "MaskSplitByProfileDataset", "MaskLabelDataset",
            "MaskDataset", "EvalDataset", "ModelEvalDataset"}

\* the classes that set self.indices and override setup with the per-subject split
ProfileSplitClasses == {"MaskSplitByProfileDataset", "MaskLabelDataset", "MaskDataset"}

\* the evaluation-only classes, which draw each file with probability data_ratio
SamplingClasses == {"EvalDataset", "ModelEvalDataset"}

\* The class whose body holds the lists image_paths, mask_labels, gender_labels
\* and age_labels that self.image_paths (etc.) resolves to: no __init__ and no
\* setup rebinds them on the instance, so a subclass of MaskBaseDataset reads
\* and appends to MaskBaseDataset's lists.
ListOwner(cls) ==
    IF cls \in {"EvalDataset", "ModelEvalDataset"} THEN cls ELSE "MaskBaseDataset"

ListOwners == {ListOwner(c) : c \in Classes}

EmptyLists ==
    [image_paths |-> <<>>, mask_labels |-> <<>>, gender_labels |-> <<>>, age_labels |-> <<>>]

\* the class attribute num_classes; MaskBaseDataset's is commented out, and the
\* other classes define none, so reading it raises AttributeError
num_classes(cls) ==
    IF cls = "MaskLabelDataset" THEN Return(2 * 3)
    ELSE IF cls = "MaskDataset" THEN Return(3)
    ELSE Raise("AttributeError")

\* int(n * ratio) for a ratio p/q given as <<p, q>>
IntOfProduct(n, ratio) == (n * ratio[1]) \div ratio[2]

\* iteration over a set of small non-negative ints visits them in increasing order
RECURSIVE SetToSeq(_)
SetToSeq(S) ==
    IF S = {} THEN <<>>
    ELSE LET m == CHOOSE x \in S : \A y \in S : x <= y
         IN  <<m>> \o SetToSeq(S \ {m})

\* _split_profile with every subject index kept on the train side
split_profile_without_difference(profiles, val_ratio, choices) ==
    [train |-> 0..(Len(profiles) - 1), val |-> Range(choices)]

\* _split_profile (MaskSplitByProfileDataset, MaskLabelDataset, MaskDataset);
\* choices is what random.choices(range(length), k=n_val) returned
split_profile(profiles, val_ratio, choices) ==
    LET length        == Len(profiles)
        val_indices   == Range(choices)
        train_indices == (0..(length-1)) \ val_indices
    IN  [train |-> train_indices, val |-> val_indices]

\* self.indices[phase].append(cnt) on a defaultdict(list): a key appears on its
\* first append, and keys keep their insertion order
IndicesAppend(indices, phase, cnt) ==
    IF \E k \in 1..Len(indices) : indices[k].phase = phase
        THEN [k \in 1..Len(indices) |->
                 IF indices[k].phase = phase
                     THEN [indices[k] EXCEPT !.idx = Append(@, cnt)]
                     ELSE indices[k]]
        ELSE Append(indices, [phase |-> phase, idx |-> <<cnt>>])

\* the four appends that end the body of the file loop
AppendSample(lists, img_path, mask_label, gender_label, age_label) ==
    [image_paths   |-> Append(lists.image_paths, img_path),
     mask_labels   |-> Append(lists.mask_labels, mask_label),
     gender_labels |-> Append(lists.gender_labels, gender_label),
     age_labels    |-> Append(lists.age_labels, age_label)]

\* whether the file loop goes on with this file (the `continue` tests on the stem)
Retained(self, stem) ==
    IF self.cls \in {"MaskLabelDataset", "ModelEvalDataset"}
        THEN startswith(stem, self.mask_label)
        ELSE stem \in DOMAIN file_names

\* One pass of the body of the file loop of setup, for the class of self.
\* st = [lists, indices, cnt, ndraw, exc]; draws[k] is the list random.choices
\* returns at the k-th draw.
FileStep(self, phase, profile, file_name, st, draws) ==
    LET stem     == StemTable[file_name]
        img_path == join(self.data_dir, profile, file_name)
        drawn    == self.cls \in SamplingClasses
        is_in    == draws[st.ndraw + 1]
        st1      == IF drawn THEN [st EXCEPT !.ndraw = @ + 1] ELSE st
        parsed   == ProfileTable[profile]
        indexed  == [st1 EXCEPT !.indices = IndicesAppend(@, phase, st.cnt),
                                !.cnt = @ + 1]
    IN  IF ~Retained(self, stem) THEN st
        ELSE IF drawn /\ is_in = <<>> THEN st1
        ELSE IF self.cls = "MaskLabelDataset" /\ self.mask_label \notin DOMAIN mask_labels_by_name
            THEN [st1 EXCEPT !.exc = "KeyError"]
        ELSE IF self.cls = "MaskDataset"
            THEN [indexed EXCEPT
                    !.lists.image_paths = Append(@, img_path),
                    !.lists.mask_labels = Append(@, file_names[stem])]
        ELSE IF parsed.exc # "" THEN [st1 EXCEPT !.exc = parsed.exc]
        ELSE IF self.cls = "ModelEvalDataset"
            THEN [st1 EXCEPT
                    !.lists.image_paths   = Append(@, img_path),
                    !.lists.gender_labels = Append(@, parsed.val.gender),
                    !.lists.age_labels    = Append(@, parsed.val.age)]
        ELSE LET mask_label == IF self.cls = "MaskLabelDataset"
                                   THEN mask_labels_by_name[self.mask_label]
                                   ELSE file_names[stem]
                 base == IF self.cls \in ProfileSplitClasses THEN indexed ELSE st1
             IN  [base EXCEPT !.lists = AppendSample(@, img_path, mask_label,
                                                     parsed.val.gender, parsed.val.age)]

\* for file_name in os.listdir(img_folder): ...   (an exception ends the scan)
RECURSIVE FileLoop(_, _, _, _, _, _)
FileLoop(self, phase, profile, files, st, draws) ==
    IF files = <<>> \/ st.exc # "" THEN st
    ELSE FileLoop(self, phase, profile, Tail(files),
                  FileStep(self, phase, profile, Head(files), st, draws), draws)

\* for profile in ...: os.listdir(img_folder), then the file loop; work is the
\* sequence of [phase, profile] the outer loops visit
RECURSIVE ProfileLoop(_, _, _, _)
ProfileLoop(self, work, st, draws) ==
    IF work = <<>> \/ st.exc # "" THEN st
    ELSE LET w == Head(work)
             e == Entry(self.data_dir, w.profile)
         IN  IF ~e.isdir THEN [st EXCEPT !.exc = "NotADirectoryError"]
             ELSE ProfileLoop(self, Tail(work),
                              FileLoop(self, w.phase, w.profile, e.files, st, draws), draws)

\* the [phase, profile] pairs of `for phase, indices in split_profiles.items():
\* for _idx in indices: profile = profiles[_idx]`
PhaseWork(profiles, phase, indices) ==
    LET order == SetToSeq(indices)
    IN  [k \in 1..Len(order) |-> [phase |-> phase, profile |-> profiles[order[k] + 1]]]

\* setup: MaskBaseDataset.setup, EvalDataset.setup and ModelEvalDataset.setup walk
\* the listing and skip hidden entries; the other three walk the train subjects
\* and then the val subjects of _split_profile
setup(self, lists, choices, draws) ==
    LET profiles == NotHidden(listdir(self.data_dir))
        parts    == split_profile(profiles, self.val_ratio, choices)
        work     == IF self.cls \in ProfileSplitClasses
                        THEN PhaseWork(profiles, "train", parts.train)
                                 \o PhaseWork(profiles, "val", parts.val)
                        ELSE [k \in 1..Len(profiles) |-> [phase |-> "", profile |-> profiles[k]]]
    IN  ProfileLoop(self, work,
                    [lists |-> lists, indices |-> <<>>, cnt |-> 0, ndraw |-> 0, exc |-> ""],
                    draws)

-----------------------------------------------------------------------------
(* Inputs *)

\* val_ratio, as <<numerator, denominator>>
ValRatios == {<<1, 5>>, <<1, 3>>}

\* mask_label of MaskLabelDataset, label of ModelEvalDataset
LabelPrefixes == {S_mask, S_normal}

\* ratio of EvalDataset and ModelEvalDataset, as <<numerator, denominator>>
DataRatios == {<<0, 1>>, <<1, 2>>}

Transforms == {"transform"}

\* what random.choices([True, False], weights=[ratio, 1 - ratio]) can return:
\* a list of one element, drawn among the values of positive weight
DrawOutcomes(ratio) ==
    {<<TRUE>> : x \in {r \in {ratio} : r[1] > 0}}
        \cup {<<FALSE>> : x \in {r \in {ratio} : r[1] < r[2]}}

\* the number of files of a root's visible subjects that pass the filter of self:
\* at most that many draws are made in one scan
NDraws(self) ==
    LET entries == Listing[self.data_dir]
    IN  Cardinality(UNION {{<<i, j>> : j \in {k \in 1..Len(entries[i].files) :
                                                Retained(self, StemTable[entries[i].files[k]])}} :
                           i \in {k \in 1..Len(entries) : ~startswith(entries[k].name, <<".">>)}})

-----------------------------------------------------------------------------
(* Construction *)

\* no call is in progress and no result is waiting for the caller
Idle == ret.op = "none"

\* __len__
len(self) == Len(classLists[ListOwner(self.cls)].image_paths)

\* The attributes __init__ sets before it calls setup.  own_first and own_count
\* are history: the length of the class's image_paths when this construction
\* began, and the number of samples this construction's scan appended.
NewSelf(cls, data_dir, val_ratio, mask_label, data_ratio) ==
    [cls |-> cls, data_dir |-> data_dir, val_ratio |-> val_ratio,
     mask_label |-> mask_label, data_ratio |-> data_ratio,
     transform |-> "None", indices |-> <<>>,
     own_first |-> 0, own_count |-> 0]

\* __init__ of every dataset class: set the attributes, run setup.  The samples a
\* failing setup appended before it raised stay in the class's lists; the object
\* under construction is lost.  (calc_statistics does nothing: mean and std are
\* given.)  The caller's own state (loop) is left to the caller.
Construct(self0, choices, draws) ==
    LET owner  == ListOwner(self0.cls)
        before == classLists[owner]
        st     == setup(self0, before, choices, draws)
        self   == [self0 EXCEPT !.indices = st.indices,
                                !.own_first = Len(before.image_paths),
                                !.own_count = Len(st.lists.image_paths) - Len(before.image_paths)]
    IN  /\ Idle
        /\ ncalls < MaxConstructions
        /\ ncalls' = ncalls + 1
        /\ classLists' = [classLists EXCEPT ![owner] = st.lists]
        /\ instances' = IF st.exc = "" THEN Append(instances, self) ELSE instances
        /\ ret' = [op |-> "init", cls |-> self0.cls, data_dir |-> self0.data_dir,
                   exc |-> st.exc, first |-> Len(before.image_paths),
                   choices |-> choices, draws |-> draws]
        /\ UNCHANGED args

\* what random.choices(range(length), k=n_val) can return in _split_profile:
\* n_val draws with replacement
split_profile_choices(length, val_ratio) ==
    [1..IntOfProduct(length, val_ratio) -> 0..(length - 1)]

\* the draws random.choices makes in _split_profile for this root and ratio
SplitChoices(data_dir, val_ratio) ==
    split_profile_choices(Len(NotHidden(listdir(data_dir))), val_ratio)

MaskBaseDataset_init(data_dir, val_ratio) ==
    /\ Construct(NewSelf("MaskBaseDataset", data_dir, val_ratio, <<>>, <<1, 1>>), <<>>, <<>>)
    /\ UNCHANGED loop

MaskSplitByProfileDataset_init(data_dir, val_ratio) ==
    \E choices \in SplitChoices(data_dir, val_ratio) :
        /\ Construct(NewSelf("MaskSplitByProfileDataset", data_dir, val_ratio, <<>>, <<1, 1>>),
                     choices, <<>>)
        /\ UNCHANGED loop

MaskLabelDataset_init(data_dir, val_ratio, mask_label) ==
    \E choices \in SplitChoices(data_dir, val_ratio) :
        /\ Construct(NewSelf("MaskLabelDataset", data_dir, val_ratio, mask_label, <<1, 1>>),
                     choices, <<>>)
        /\ UNCHANGED loop

MaskDataset_init(data_dir, val_ratio) ==
    \E choices \in SplitChoices(data_dir, val_ratio) :
        /\ Construct(NewSelf("MaskDataset", data_dir, val_ratio, <<>>, <<1, 1>>),
                     choices, <<>>)
        /\ UNCHANGED loop

EvalDataset_init(data_dir, ratio) ==
    LET self0 == NewSelf("EvalDataset", data_dir, <<0, 1>>, <<>>, ratio)
    IN  \E draws \in [1..NDraws(self0) -> DrawOutcomes(ratio)] :
            /\ Construct(self0, <<>>, draws)
            /\ UNCHANGED loop

ModelEvalDataset_init(data_dir, label, ratio) ==
    LET self0 == NewSelf("ModelEvalDataset", data_dir, <<0, 1>>, label, ratio)
    IN  \E draws \in [1..NDraws(self0) -> DrawOutcomes(ratio)] :
            /\ Construct(self0, <<>>, draws)
            /\ UNCHANGED loop

-----------------------------------------------------------------------------
(* Operations on a constructed dataset *)

\* set_transform
set_transform(i, transform) ==
    /\ Idle
    /\ instances' = [instances EXCEPT ![i].transform = transform]
    /\ ret' = [op |-> "set_transform", inst |-> i]
    /\ UNCHANGED <<classLists, ncalls, args, loop>>

\* list[index] for 0 <= index: IndexError past the end
Item(list, index) ==
    IF index < Len(list) THEN Return(list[index + 1]) ELSE Raise("IndexError")

\* __getitem__ of MaskLabelDataset and ModelEvalDataset calling the 18-class
\* encoder (the line MaskLabelDataset.__getitem__ keeps as a comment)
label_of_full_encoder(cls, mask_label, gender_label, age_label) ==
    IF cls = "MaskDataset" THEN mask_label
    ELSE encode_multi_class(mask_label, gender_label, age_label)

\* the label __getitem__ of the class computes from the three labels of a sample
label_of(cls, mask_label, gender_label, age_label) ==
    IF cls \in {"MaskLabelDataset", "ModelEvalDataset"}
        THEN encode_gender_age(gender_label, age_label)
    ELSE IF cls = "MaskDataset" THEN mask_label
    ELSE encode_multi_class(mask_label, gender_label, age_label)

\* whether __getitem__ of the class asserts that a transform is set
AssertsTransform(cls) == cls \notin SamplingClasses

\* __getitem__ of the class of self: the value returned or the exception raised.
\* self.transform(image) is the pair of the transform and the image it is given;
\* an evaluation-only dataset without a transform returns the image itself.
getitem_result(self, index) ==
    LET lists        == classLists[ListOwner(self.cls)]
        image        == Item(lists.image_paths, index)
        mask_label   == IF self.cls = "MaskLabelDataset"
                            THEN Return(mask_labels_by_name[self.mask_label])
                        ELSE IF self.cls = "ModelEvalDataset" THEN Return(0)
                        ELSE Item(lists.mask_labels, index)
        gender_label == IF self.cls = "MaskDataset" THEN Return(0)
                        ELSE Item(lists.gender_labels, index)
        age_label    == IF self.cls = "MaskDataset" THEN Return(0)
                        ELSE Item(lists.age_labels, index)
    IN  IF AssertsTransform(self.cls) /\ self.transform = "None"
            THEN Raise("AssertionError")
        ELSE IF image.exc # "" \/ mask_label.exc # ""
                    \/ gender_label.exc # "" \/ age_label.exc # ""
            THEN Raise("IndexError")
        ELSE Return([image |-> [path |-> image.val, transform |-> self.transform],
                     label |-> label_of(self.cls, mask_label.val,
                                        gender_label.val, age_label.val)])

getitem(i, index) ==
    /\ Idle
    /\ ret' = [op |-> "getitem", inst |-> i, index |-> index,
               transform |-> instances[i].transform,
               res |-> getitem_result(instances[i], index)]
    /\ UNCHANGED <<classLists, instances, ncalls, args, loop>>

\* the subsets of S that have k elements
RECURSIVE SubsetsOfSize(_, _)
SubsetsOfSize(S, k) ==
    IF k = 0 THEN {{}}
    ELSE IF Cardinality(S) < k THEN {}
    ELSE LET x == CHOOSE y \in S : TRUE
         IN  {T \cup {x} : T \in SubsetsOfSize(S \ {x}, k - 1)}
                 \cup SubsetsOfSize(S \ {x}, k)

\* n_train and n_val the way the two lines of it would be written with both sizes
\* taken from the ratio
split_lengths_both_rounded(n, val_ratio) ==
    << IntOfProduct(n, <<val_ratio[2] - val_ratio[1], val_ratio[2]>>),
       IntOfProduct(n, val_ratio) >>

\* n_val = int(len(self) * self.val_ratio); n_train = len(self) - n_val
split_lengths(n, val_ratio) ==
    << n - IntOfProduct(n, val_ratio), IntOfProduct(n, val_ratio) >>

\* torch.utils.data.random_split(dataset, [n_train, n_val]) for the permutation
\* randperm returned: ValueError unless the lengths add up to len(dataset), else
\* consecutive slices of the permutation.  A Subset is the sequence of its indices.
random_split(n, lengths, perm) ==
    IF lengths[1] + lengths[2] # n \/ lengths[1] < 0 \/ lengths[2] < 0
        THEN Raise("ValueError")
        ELSE Return(<< SubSeq(perm, 1, lengths[1]),
                       SubSeq(perm, lengths[1] + 1, lengths[1] + lengths[2]) >>)

\* The permutations randperm(n) can return, up to the order inside the last k
\* places and inside the places before them (the order inside a Subset is not
\* observed by any operation of the dataset).
Randperms(n, k) ==
    {SetToSeq((0..(n - 1)) \ tail) \o SetToSeq(tail) : tail \in SubsetsOfSize(0..(n - 1), k)}

\* split_dataset: random_split in MaskBaseDataset, one Subset per list of
\* self.indices in the three classes that override it.  The evaluation-only
\* classes have no such method.  The set holds every value a call can return.
split_dataset_results(self) ==
    IF self.cls \in ProfileSplitClasses
        THEN {Return([k \in 1..Len(self.indices) |-> self.indices[k].idx])}
    ELSE IF self.cls = "MaskBaseDataset"
        THEN LET lengths == split_lengths(len(self), self.val_ratio)
                 k       == IF lengths[2] \in 0..len(self) THEN lengths[2] ELSE 0
             IN  {random_split(len(self), lengths, perm) : perm \in Randperms(len(self), k)}
    ELSE {Raise("AttributeError")}

split_dataset(i) ==
    /\ Idle
    /\ \E res \in split_dataset_results(instances[i]) :
           ret' = [op |-> "split_dataset", inst |-> i, res |-> res]
    /\ UNCHANGED <<classLists, instances, ncalls, args, loop>>

\* train_set, val_set = dataset.split_dataset(): the unpacking of the value
\* returned raises ValueError unless it holds exactly two items
unpack_pair(res) ==
    IF res.exc # "" THEN res
    ELSE IF Len(res.val) # 2 THEN Raise("ValueError")
    ELSE res

\* a second call of split_dataset on the dataset whose split the caller holds
split_dataset_again ==
    /\ ret.op = "split_dataset"
    /\ \E res \in split_dataset_results(instances[ret.inst]) :
           ret' = [op |-> "split_dataset_again", inst |-> ret.inst,
                   prev |-> ret.res, res |-> res]
    /\ UNCHANGED <<classLists, instances, ncalls, args, loop>>

\* dataset.num_classes, as the training script reads it
read_num_classes(i) ==
    /\ Idle
    /\ ret' = [op |-> "num_classes", inst |-> i, res |-> num_classes(instances[i].cls)]
    /\ UNCHANGED <<classLists, instances, ncalls, args, loop>>

\* the caller takes the value returned, or handles the exception raised
return_to_caller ==
    /\ ~Idle
    /\ ret' = [op |-> "none"]
    /\ args' = [op |-> "none"]
    /\ UNCHANGED <<classLists, instances, ncalls, loop>>

-----------------------------------------------------------------------------
(* One process that constructs datasets and uses them *)

NoArgs == [op |-> "none"]

\* train() has not started: no dataset, no partitions, no loader iterator
LoopStart ==
    [pc |-> "dataset", epoch |-> 0, workers |-> FALSE, sets |-> <<>>,
     pending |-> {}, worker_transform |-> "None"]

Init ==
    /\ classLists = [c \in ListOwners |-> EmptyLists]
    /\ instances = <<>>
    /\ ncalls = 0
    /\ args = NoArgs
    /\ ret = [op |-> "none"]
    /\ loop = LoopStart

\* the constructors of the MaskBaseDataset family
TrainingConstruction ==
    \/ \E d \in Roots, r \in ValRatios : MaskBaseDataset_init(d, r)
    \/ \E d \in Roots, r \in ValRatios : MaskSplitByProfileDataset_init(d, r)
    \/ \E d \in Roots, r \in ValRatios, l \in LabelPrefixes : MaskLabelDataset_init(d, r, l)
    \/ \E d \in Roots, r \in ValRatios : MaskDataset_init(d, r)

\* a training process: datasets of the MaskBaseDataset family and every
\* operation on them
Next ==
    \/ TrainingConstruction
    \/ \E i \in 1..Len(instances), t \in Transforms : set_transform(i, t)
    \/ \E i \in 1..Len(instances) : \E index \in 0..len(instances[i]) : getitem(i, index)
    \/ \E i \in 1..Len(instances) : split_dataset(i)
    \/ \E i \in 1..Len(instances) : read_num_classes(i)
    \/ return_to_caller

Spec == Init /\ [][Next]_vars

\* The same process, constructing only.  set_transform, getitem, split_dataset
\* and the read of num_classes leave classLists, and every attribute of an
\* instance but transform, unchanged: the lists and indices reachable here are
\* those reachable under Spec.
ScanNext ==
    \/ TrainingConstruction
    \/ return_to_caller

ScanSpec == Init /\ [][ScanNext]_vars

\* the same process, constructing and splitting
SplitNext ==
    \/ TrainingConstruction
    \/ \E i \in 1..Len(instances) : split_dataset(i)
    \/ return_to_caller

SplitSpec == Init /\ [][SplitNext]_vars

\* the same process, constructing and splitting a dataset once or twice in a row
ResplitNext ==
    \/ TrainingConstruction
    \/ \E i \in 1..Len(instances) : split_dataset(i)
    \/ split_dataset_again
    \/ return_to_caller

ResplitSpec == Init /\ [][ResplitNext]_vars

\* an evaluation process: the evaluation-only datasets
EvalNext ==
    \/ \E d \in Roots, r \in DataRatios : EvalDataset_init(d, r)
    \/ \E d \in Roots, l \in LabelPrefixes, r \in DataRatios : ModelEvalDataset_init(d, l, r)
    \/ \E i \in 1..Len(instances), t \in Transforms : set_transform(i, t)
    \/ \E i \in 1..Len(instances) : \E index \in 0..len(instances[i]) : getitem(i, index)
    \/ \E i \in 1..Len(instances) : split_dataset(i)
    \/ \E i \in 1..Len(instances) : read_num_classes(i)
    \/ return_to_caller

EvalSpec == Init /\ [][EvalNext]_vars

-----------------------------------------------------------------------------
(* train(): one dataset, its two partitions, and the epochs over them *)

\* args.dataset: a class of the MaskBaseDataset family
TrainClasses == {"MaskBaseDataset"} \cup ProfileSplitClasses

\* data_dir
TrainRoots == {"D"}

\* args.epochs
MaxEpochs == 2

\* args.batch_size
BatchSize == 2

\* the transform every epoch passes to every set_transform
transform_always_training(phase) == "transform"

\* the transform an epoch passes to set_transform before it iterates the phase:
\* transform before train_loader, val_transform before val_loader
transform_of_phase(phase) ==
    IF phase = "train" THEN "transform" ELSE "val_transform"

\* train stops with the exception, or goes on at pc
Proceed(exc, pc) == IF exc # "" THEN "aborted" ELSE pc

\* dataset = dataset_module(data_dir=data_dir): val_ratio and mask_label take
\* their defaults, 0.2 and 'mask'
train_dataset ==
    /\ loop.pc = "dataset"
    /\ \E cls \in TrainClasses, data_dir \in TrainRoots :
           LET mask_label == IF cls = "MaskLabelDataset" THEN S_mask ELSE <<>>
               self0      == NewSelf(cls, data_dir, <<1, 5>>, mask_label, <<1, 1>>)
           IN  \E choices \in IF cls \in ProfileSplitClasses
                                  THEN SplitChoices(data_dir, <<1, 5>>)
                                  ELSE {<<>>} :
                   Construct(self0, choices, <<>>)
    /\ loop' = [loop EXCEPT !.pc = Proceed(ret'.exc, "num_classes")]

\* num_classes = dataset.num_classes
train_num_classes ==
    /\ loop.pc = "num_classes"
    /\ LET res == num_classes(instances[1].cls)
       IN  /\ ret' = [op |-> "num_classes", inst |-> 1, res |-> res]
           /\ loop' = [loop EXCEPT !.pc = Proceed(res.exc, "split")]
    /\ UNCHANGED <<classLists, instances, ncalls, args>>

\* train_set, val_set = dataset.split_dataset(), then the two DataLoaders, whose
\* num_workers is cpu_count() // 2: none on a single CPU
train_split ==
    /\ loop.pc = "split"
    /\ \E res \in split_dataset_results(instances[1]), workers \in BOOLEAN :
           LET pair == unpack_pair(res)
           IN  /\ ret' = [op |-> "split_dataset", inst |-> 1, res |-> pair]
               /\ loop' = [loop EXCEPT !.pc = Proceed(pair.exc, "set_train"),
                                       !.sets = IF pair.exc = "" THEN pair.val ELSE <<>>,
                                       !.workers = workers]
    /\ UNCHANGED <<classLists, instances, ncalls, args>>

\* dataset.set_transform(transform) / dataset.set_transform(val_transform)
train_set_transform(phase) ==
    /\ loop.pc = "set_" \o phase
    /\ instances' = [instances EXCEPT ![1].transform = transform_of_phase(phase)]
    /\ ret' = [op |-> "set_transform", inst |-> 1]
    /\ loop' = [loop EXCEPT !.pc = "iter_" \o phase]
    /\ UNCHANGED <<classLists, ncalls, args>>

\* the indices of the partition
PartitionOf(phase) == Range(loop.sets[IF phase = "train" THEN 1 ELSE 2])

\* The for statement asks the loader for an iterator.  The sampler shuffles the
\* partition; train_loader drops the last incomplete batch.  Worker processes
\* are started now, each with a copy of the dataset as it is now.
train_iter(phase) ==
    /\ loop.pc = "iter_" \o phase
    /\ LET n    == Cardinality(PartitionOf(phase))
           kept == IF phase = "train" THEN (n \div BatchSize) * BatchSize ELSE n
       IN  \E pending \in SubsetsOfSize(PartitionOf(phase), kept) :
               loop' = [loop EXCEPT !.pc = "fetch_" \o phase,
                                    !.pending = pending,
                                    !.worker_transform =
                                        IF loop.workers THEN instances[1].transform
                                                        ELSE "None"]
    /\ UNCHANGED <<classLists, instances, ncalls, args, ret>>

\* one dataset[index] of the iteration: in a worker, on the worker's copy of the
\* dataset; without workers, on the dataset itself.  (What the loop body does
\* with a batch, the figure of the first validation batch included, is left out.)
train_fetch(phase) ==
    /\ loop.pc = "fetch_" \o phase
    /\ \E index \in loop.pending :
           LET self == IF loop.workers
                           THEN [instances[1] EXCEPT !.transform = loop.worker_transform]
                           ELSE instances[1]
               res  == getitem_result(self, index)
           IN  /\ ret' = [op |-> "fetch", phase |-> phase, index |-> index,
                          epoch |-> loop.epoch, transform |-> self.transform, res |-> res]
               /\ loop' = [loop EXCEPT !.pc = Proceed(res.exc, "fetch_" \o phase),
                                       !.pending = @ \ {index}]
    /\ UNCHANGED <<classLists, instances, ncalls, args>>

\* the iterator is exhausted: the for statement ends, and its workers with it
train_iter_end(phase) ==
    /\ loop.pc = "fetch_" \o phase
    /\ loop.pending = {}
    /\ loop' = IF phase = "train"
                   THEN [loop EXCEPT !.pc = "set_val", !.worker_transform = "None"]
                   ELSE [loop EXCEPT !.pc = IF loop.epoch + 1 < MaxEpochs
                                                THEN "set_train" ELSE "done",
                                     !.epoch = @ + 1,
                                     !.worker_transform = "None"]
    /\ UNCHANGED <<classLists, instances, ncalls, args, ret>>

Phases == {"train", "val"}

TrainNext ==
    \/ train_dataset
    \/ train_num_classes
    \/ train_split
    \/ \E phase \in Phases : train_set_transform(phase)
    \/ \E phase \in Phases : train_iter(phase)
    \/ \E phase \in Phases : train_fetch(phase)
    \/ \E phase \in Phases : train_iter_end(phase)

TrainSpec == Init /\ [][TrainNext]_vars

-----------------------------------------------------------------------------
(* The pure functions, applied to every input of their domains *)

MaskValues == {MASK, INCORRECT, NORMAL}
GenderValues == {MALE, FEMALE}
AgeValues == {YOUNG, MIDDLE, OLD}

\* the label a dataset of class cls gives a sample with these three labels
call_label(cls, mask_label, gender_label, age_label) ==
    /\ Idle
    /\ args' = [op |-> "label", cls |-> cls, mask |-> mask_label,
                gender |-> gender_label, age |-> age_label]
    /\ ret' = [op |-> "label", val |-> label_of(cls, mask_label, gender_label, age_label)]
    /\ UNCHANGED <<classLists, instances, ncalls, loop>>

\* decode_multi_class (inherited unchanged by every subclass) of the label just computed
call_decode ==
    /\ ret.op = "label"
    /\ args' = [args EXCEPT !.op = "decode"]
    /\ ret' = [op |-> "decode", label |-> ret.val, val |-> decode_multi_class(ret.val)]
    /\ UNCHANGED <<classLists, instances, ncalls, loop>>

\* all the labels a dataset of class cls can give
call_label_image(cls) ==
    /\ Idle
    /\ args' = [op |-> "image", cls |-> cls]
    /\ ret' = [op |-> "image",
               val |-> {label_of(cls, m, g, a) : m \in MaskValues, g \in GenderValues,
                                                  a \in AgeValues}]
    /\ UNCHANGED <<classLists, instances, ncalls, loop>>

\* the decimal numeral of a natural number, and of an integer
RECURSIVE NatNumeral(_)
NatNumeral(n) ==
    IF n < 10 THEN <<Digits[n + 1]>>
    ELSE NatNumeral(n \div 10) \o <<Digits[(n % 10) + 1]>>

Numeral(n) == IF n < 0 THEN <<"-">> \o NatNumeral(0 - n) ELSE NatNumeral(n)

\* ages from -MaxAge to MaxAge are given to from_number
MaxAge == 61

\* other spellings int accepts, with the integer each denotes
OtherLiterals ==
    { <<<<" ", "5", "9">>, 59>>, <<<<"+", "6", "0">>, 60>>, <<<<"2", "_", "9">>, 29>>,
      <<<<"3", "0", " ">>, 30>> }

\* strings int does not accept
NonIntegers ==
    { <<>>, <<"a", "b", "c">>, <<"2", ".", "5">>, <<"3", "x">>, <<"-">>,
      <<"_", "1">>, <<"1", "_", "_", "0">>, <<"-", " ", "5">> }

AgeInputs ==
    {Numeral(n) : n \in (0 - MaxAge)..MaxAge}
        \cup {l[1] : l \in OtherLiterals} \cup NonIntegers

\* AgeLabels.from_number(value)
call_from_number(value) ==
    /\ Idle
    /\ args' = [op |-> "from_number", value |-> value]
    /\ ret' = [op |-> "from_number", res |-> AgeLabels_from_number(value)]
    /\ UNCHANGED <<classLists, instances, ncalls, loop>>

\* subject lists of 1 to MaxSubjects subjects are given to _split_profile
MaxSubjects == 4

SubjectNames == <<P_1, P_2, P_3, P_5, P_6>>

SplitRatios == {<<1, 5>>, <<1, 3>>, <<1, 2>>, <<2, 3>>}

\* _split_profile(profiles, val_ratio) on the first n subject names
call_split_profile(n, val_ratio) ==
    /\ Idle
    /\ n <= Len(SubjectNames)
    /\ \E choices \in split_profile_choices(n, val_ratio) :
           ret' = [op |-> "split_profile",
                   res |-> split_profile(SubSeq(SubjectNames, 1, n), val_ratio, choices)]
    /\ args' = [op |-> "split_profile", n |-> n, val_ratio |-> val_ratio]
    /\ UNCHANGED <<classLists, instances, ncalls, loop>>

PureNext ==
    \/ \E cls \in Classes, m \in MaskValues, g \in GenderValues, a \in AgeValues :
           call_label(cls, m, g, a)
    \/ call_decode
    \/ \E cls \in Classes : call_label_image(cls)
    \/ \E value \in AgeInputs : call_from_number(value)
    \/ \E n \in 1..MaxSubjects, r \in SplitRatios : call_split_profile(n, r)
    \/ return_to_caller

PureSpec == Init /\ [][PureNext]_vars

-----------------------------------------------------------------------------
(* Claims *)

\* the classes whose label is the full 18-class encoding
FullClasses == {"MaskBaseDataset", "MaskSplitByProfileDataset", "EvalDataset"}

\* the number of classes the specification gives each label variant
VariantClasses(cls) ==
    IF cls \in FullClasses THEN 3 * 2 * 3
    ELSE IF cls = "MaskDataset" THEN 3
    ELSE 2 * 3

\* C1: decoding the full 18-class encoding of (mask, gender, age) returns exactly
\* (mask, gender, age), for every mask in 0..2, gender in 0..1 and age in 0..2.
C1_RoundTrip ==
    (ret.op = "decode" /\ args.cls \in FullClasses)
        => ret.val = <<args.mask, args.gender, args.age>>

C1_Witness ==
    /\ ret.op = "decode"
    /\ args.cls = "MaskBaseDataset"
    /\ <<args.mask, args.gender, args.age>> = <<NORMAL, FEMALE, OLD>>
    /\ ret.label = 17

\* C2: for each label variant the encoded label lies in [0, num_classes) (18, 6, 3),
\* and every integer of that range is the label of some attribute combination.
C2_RangeAndOnto ==
    /\ ret.op = "label" => ret.val \in 0..(VariantClasses(args.cls) - 1)
    /\ ret.op = "image" => ret.val = 0..(VariantClasses(args.cls) - 1)

C2_Witness ==
    /\ ret.op = "image"
    /\ args.cls = "MaskLabelDataset"
    /\ ret.val = 0..5

\* the lists self.image_paths (etc.) resolves to
ListsOf(self) == classLists[ListOwner(self.cls)]

\* the subject directory a sample was read from
SubjectOf(img_path) == <<img_path.dir, img_path.profile>>

\* the visible entries of a root
VisibleEntries(data_dir) ==
    {e \in Range(Listing[data_dir]) : e.name[1] # "."}

\* C3: under the subject-disjoint split no subject has samples in both the train
\* and the val index lists: the samples two different phase lists of a dataset
\* address never belong to the same subject directory.
C3_NoLeakage ==
    \A i \in 1..Len(instances) :
        LET self  == instances[i]
            paths == ListsOf(self).image_paths
        IN  self.cls \in ProfileSplitClasses =>
                \A k1, k2 \in 1..Len(self.indices) :
                    k1 # k2 =>
                        \A a \in Range(self.indices[k1].idx), b \in Range(self.indices[k2].idx) :
                            SubjectOf(paths[a + 1]) # SubjectOf(paths[b + 1])

\* C4: under the random-sample split the train and val index sets are disjoint and
\* together hold every sample index of the dataset exactly once.
C4_PartitionComplete ==
    (ret.op = "split_dataset" /\ instances[ret.inst].cls = "MaskBaseDataset") =>
        /\ ret.res.exc = ""
        /\ Len(ret.res.val) = 2
        /\ LET all == ret.res.val[1] \o ret.res.val[2]
               n   == len(instances[ret.inst])
           IN  /\ Len(all) = n
               /\ Range(all) = 0..(n - 1)
               /\ Range(ret.res.val[1]) \cap Range(ret.res.val[2]) = {}

C4_Witness ==
    /\ ret.op = "split_dataset"
    /\ instances[ret.inst].cls = "MaskBaseDataset"
    /\ ret.res.exc = ""
    /\ Len(ret.res.val[1]) >= 2
    /\ Len(ret.res.val[2]) >= 1
    /\ ret.res.val[2][1] < ret.res.val[1][1]

\* C5: under the random-sample split the validation set has exactly
\* floor(total_samples * val_ratio) indices and the training set the rest of
\* total_samples, total_samples being the number of samples scanned for this dataset.
C5_SplitSizes ==
    (ret.op = "split_dataset" /\ instances[ret.inst].cls = "MaskBaseDataset") =>
        LET self          == instances[ret.inst]
            total_samples == self.own_count
            n_val         == (total_samples * self.val_ratio[1]) \div self.val_ratio[2]
        IN  /\ ret.res.exc = ""
            /\ Len(ret.res.val[2]) = n_val
            /\ Len(ret.res.val[1]) = total_samples - n_val

\* the seven recognised stems
SevenStems == {S_mask1, S_mask2, S_mask3, S_mask4, S_mask5, S_incorrect_mask, S_normal}

\* the file name is a recognised stem followed by nothing or by one extension
NamesRecognisedStem(file_name) ==
    \E stem \in SevenStems :
        /\ startswith(file_name, stem)
        /\ LET rest == SubSeq(file_name, Len(stem) + 1, Len(file_name))
           IN  rest = <<>> \/ (rest[1] = "." /\ \A k \in 2..Len(rest) : rest[k] # ".")

\* the files of the visible subjects of a root that name a recognised stem
RecognisedFiles(data_dir) ==
    UNION {{join(data_dir, e.name, e.files[k]) :
               k \in {j \in 1..Len(e.files) : NamesRecognisedStem(e.files[j])}} :
           e \in VisibleEntries(data_dir)}

\* the samples the construction that just returned put on the list
Appended == SubSeq(classLists[ListOwner(ret.cls)].image_paths,
                   ret.first + 1,
                   Len(classLists[ListOwner(ret.cls)].image_paths))

\* C6: a scan that filters by stem emits at most one sample per file and only for
\* files whose name without its extension is one of the seven recognised stems
\* (nothing for sidecars, hidden files, hidden entries of the root); a scan that
\* completes has emitted exactly one sample for each such file.
C6_ScanFiltering ==
    (ret.op = "init" /\ ret.cls # "MaskLabelDataset") =>
        /\ Range(Appended) \subseteq RecognisedFiles(ret.data_dir)
        /\ \A a, b \in 1..Len(Appended) : a # b => Appended[a] # Appended[b]
        /\ ret.exc = "" => Range(Appended) = RecognisedFiles(ret.data_dir)

C6_Witness ==
    /\ ret.op = "init"
    /\ ret.cls = "MaskBaseDataset"
    /\ ret.data_dir = "A"
    /\ ret.exc = ""
    /\ ret.first > 0
    /\ Len(Appended) = 3

\* the name follows the subject convention: four fields, a gender that is male or
\* female in any case, an age that is a non-negative integer
FollowsConvention(profile) ==
    LET fields == split(profile, "_")
    IN  /\ Len(fields) = 4
        /\ lower(fields[2]) \in {S_male, S_female}
        /\ fields[4] # <<>>
        /\ Range(fields[4]) \subseteq Range(Digits)

\* C7: a scan of a root that holds a visible subject directory whose name
\* violates the convention aborts with an error, whatever the directory contains.
C7_MalformedIsFatal ==
    (ret.op = "init" /\ \E e \in VisibleEntries(ret.data_dir) : ~FollowsConvention(e.name))
        => ret.exc # ""

\* C8: on every dataset class, get before any set_transform fails and returns no
\* pair; once set_transform has been called, get of a sample index succeeds.
C8_TransformPrecondition ==
    ret.op = "getitem" =>
        /\ ret.transform = "None" => ret.res.exc # ""
        /\ (ret.transform # "None" /\ ret.index < len(instances[ret.inst]))
               => ret.res.exc = ""

\* C9: every dataset class reports a num_classes constant (18, 3 or 6 by
\* variant), and every label get returns lies in [0, num_classes).
C9_ConsistentClassCount ==
    /\ ret.op = "num_classes" =>
           /\ ret.res.exc = ""
           /\ ret.res.val = VariantClasses(instances[ret.inst].cls)
    /\ (ret.op = "getitem" /\ ret.res.exc = "") =>
           ret.res.val.label \in 0..(VariantClasses(instances[ret.inst].cls) - 1)

\* C10: each instance's sample_count() is the number of samples scanned from its
\* own root during its own construction, whatever else was constructed.
C10_InstanceIsolation ==
    \A i \in 1..Len(instances) : len(instances[i]) = instances[i].own_count

\* C11: when a construction fails during its scan, no sample of the failed scan
\* remains in any sample list: the lists are as they were before it began.
C11_AllOrNothing ==
    (ret.op = "init" /\ ret.exc # "") => Len(Appended) = 0

\* no sample of the dataset is assigned to validation
NoValSample(self) ==
    IF self.cls = "MaskBaseDataset"
        THEN (len(self) * self.val_ratio[1]) \div self.val_ratio[2] = 0
        ELSE \A k \in 1..Len(self.indices) : self.indices[k].phase # "val"

\* C12: under both split policies, when no sample is assigned to validation,
\* split_dataset does not fail and returns a train and a val collection, the val
\* collection of length 0, so that the caller's two-way unpacking succeeds.
C12_DegenerateSplit ==
    (/\ ret.op = "split_dataset"
     /\ instances[ret.inst].cls \in ProfileSplitClasses \cup {"MaskBaseDataset"}
     /\ NoValSample(instances[ret.inst]))
        => /\ unpack_pair(ret.res).exc = ""
           /\ Len(ret.res.val[2]) = 0

\* C13: the train/val assignment of a dataset is fixed at construction: two calls
\* of split_dataset on the same instance return the same train index set and the
\* same val index set, under both split policies.
C13_SplitImmutable ==
    (ret.op = "split_dataset_again" /\ ret.prev.exc = "") =>
        /\ ret.res.exc = ""
        /\ Len(ret.res.val) = Len(ret.prev.val)
        /\ \A k \in 1..Len(ret.prev.val) : Range(ret.res.val[k]) = Range(ret.prev.val[k])

\* C14: decode_multi_class, as the variant class exposes it, applied to the label
\* the variant computes recovers what was encoded: the mask state for the
\* mask-only variant, the gender and the age for the gender x age variant.
C14_VariantRoundTrip ==
    ret.op = "decode" =>
        /\ args.cls = "MaskDataset" => ret.val[1] = args.mask
        /\ args.cls = "MaskLabelDataset" =>
               (ret.val[2] = args.gender /\ ret.val[3] = args.age)

\* the bracket of an age
Bracket(n) == IF n < 30 THEN YOUNG ELSE IF n < 60 THEN MIDDLE ELSE OLD

\* C15: AgeLabels.from_number fails when the value is not parseable as an integer;
\* otherwise it returns YOUNG for n < 30, MIDDLE for 30 <= n < 60 and OLD for
\* n >= 60, one bracket for every integer.
C15_AgeBracketing ==
    ret.op = "from_number" =>
        /\ \A n \in (0 - MaxAge)..MaxAge :
               args.value = Numeral(n) => ret.res = Return(Bracket(n))
        /\ \A l \in OtherLiterals :
               args.value = l[1] => ret.res = Return(Bracket(l[2]))
        /\ args.value \in NonIntegers => ret.res.exc = "ValueError"

C15_Witness ==
    /\ ret.op = "from_number"
    /\ args.value = <<"6", "0">>
    /\ ret.res = Return(OLD)

\* the files of the visible subjects of entries[k..] that pass the filter of
\* self, in scan order, as the paths the scan gives them
RECURSIVE QualifyingPaths(_, _, _)
QualifyingPaths(self, entries, k) ==
    IF k > Len(entries) THEN <<>>
    ELSE LET e   == entries[k]
             sel == SelectSeq(e.files, LAMBDA f : Retained(self, StemTable[f]))
         IN  (IF e.name[1] = "." THEN <<>>
              ELSE [j \in 1..Len(sel) |-> join(self.data_dir, e.name, sel[j])])
                 \o QualifyingPaths(self, entries, k + 1)

\* C16: in the sampling scans (EvalDataset, ModelEvalDataset) each qualifying file
\* gets its own include/exclude draw; the files whose draw is 'include' are added
\* to the sample list and the files whose draw is 'exclude' are not, so that
\* data_ratio = 0 yields an empty sample list.
C16_SamplingScan ==
    (ret.op = "init" /\ ret.cls \in SamplingClasses /\ ret.exc = "") =>
        LET self     == instances[Len(instances)]
            paths    == QualifyingPaths(self, Listing[self.data_dir], 1)
            included == {k \in 1..Len(paths) : ret.draws[k] = <<TRUE>>}
        IN  /\ Len(ret.draws) = Len(paths)
            /\ Len(Appended) = Cardinality(included)
            /\ Range(Appended) = {paths[k] : k \in included}
            /\ self.data_ratio[1] = 0 => Len(Appended) = 0

\* C17: _split_profile over n subjects returns a val set and a train set that are
\* disjoint and together hold all n subject indices; the val set has at most
\* floor(n * val_ratio) subjects, and at least 1 whenever floor(n * val_ratio) >= 1.
C17_SubjectPartition ==
    ret.op = "split_profile" =>
        LET n     == args.n
            floor == (n * args.val_ratio[1]) \div args.val_ratio[2]
        IN  /\ ret.res.train \cap ret.res.val = {}
            /\ ret.res.train \cup ret.res.val = 0..(n - 1)
            /\ Cardinality(ret.res.val) <= floor
            /\ floor >= 1 => Cardinality(ret.res.val) >= 1

\* the val set is strictly smaller than floor(n * val_ratio): a subject was drawn twice
C17_Witness ==
    /\ ret.op = "split_profile"
    /\ Cardinality(ret.res.val) < (args.n * args.val_ratio[1]) \div args.val_ratio[2]
    /\ Cardinality(ret.res.val) >= 1

\* the subjects _split_profile assigned to the phase, for the draws it made
SubjectsOfPhase(self, phase, choices) ==
    LET profiles == SelectSeq(listdir(self.data_dir), LAMBDA p : p[1] # ".")
        val      == {profiles[c + 1] : c \in Range(choices)}
    IN  IF phase = "val" THEN {<<self.data_dir, p>> : p \in val}
        ELSE {<<self.data_dir, p>> : p \in Range(profiles) \ val}

\* C18: after the construction of a subject-split dataset each phase's index list
\* is strictly increasing, the phase lists are pairwise disjoint and together hold
\* every index of [0, sample_count()) exactly once, and each recorded index
\* addresses a sample of a subject assigned to that phase.
C18_IndexLists ==
    (ret.op = "init" /\ ret.cls \in ProfileSplitClasses /\ ret.exc = "") =>
        LET self  == instances[Len(instances)]
            paths == ListsOf(self).image_paths
            lists == self.indices
        IN  /\ \A k \in 1..Len(lists) :
                   \A a, b \in 1..Len(lists[k].idx) :
                       a < b => lists[k].idx[a] < lists[k].idx[b]
            /\ \A k1, k2 \in 1..Len(lists) :
                   k1 # k2 => Range(lists[k1].idx) \cap Range(lists[k2].idx) = {}
            /\ UNION {Range(lists[k].idx) : k \in 1..Len(lists)} = 0..(len(self) - 1)
            /\ \A k \in 1..Len(lists) :
                   \A a \in Range(lists[k].idx) :
                       SubjectOf(paths[a + 1]) \in
                           SubjectsOfPhase(self, lists[k].phase, ret.choices)

\* C19: in every epoch no get on the training partition observes another
\* transform than the training transform, no get on the validation partition
\* another than the validation transform (the set_transform of the phase has
\* completed before its first get), and no set_transform is called while gets of
\* an iteration are outstanding.
C19_TransformOrdering ==
    /\ ret.op = "fetch" =>
           /\ ret.res.exc = ""
           /\ ret.phase = "train" => ret.res.val.image.transform = "transform"
           /\ ret.phase = "val" => ret.res.val.image.transform = "val_transform"
    /\ loop.pending # {} => loop.pc \in {"fetch_train", "fetch_val"}

C19_Witness ==
    /\ ret.op = "fetch"
    /\ ret.phase = "val"
    /\ ret.epoch = 1
    /\ ret.res.exc = ""
    /\ ret.res.val.image.transform = "val_transform"

\* C20: in every scan of the MaskBaseDataset family, the prefix-filtered scan of
\* MaskLabelDataset included, a file whose stem is not one of the seven recognised
\* stems never becomes a sample, and the filtered scan retains a file only if
\* its stem starts with the given label prefix.
C20_UnrecognisedIgnored ==
    ret.op = "init" =>
        /\ Range(Appended) \subseteq RecognisedFiles(ret.data_dir)
        /\ (ret.cls = "MaskLabelDataset" /\ ret.exc = "") =>
               \A k \in 1..Len(Appended) :
                   startswith(Appended[k].file, instances[Len(instances)].mask_label)

\* the four sample lists of the MaskBaseDataset family
FamilyLists == classLists[ListOwner("MaskBaseDataset")]

\* position k (counted from 1) of the label lists holds the labels of the image
\* at image_paths[k]: the mask label of its stem, the gender and the age bracket
\* of its subject directory
DescribesImage(lists, k) ==
    LET img_path == lists.image_paths[k]
        parsed   == ProfileTable[img_path.profile]
        stem     == StemTable[img_path.file]
    IN  /\ stem \in DOMAIN file_names => lists.mask_labels[k] = file_names[stem]
        /\ parsed.exc = ""
        /\ lists.gender_labels[k] = parsed.val.gender
        /\ lists.age_labels[k] = parsed.val.age

\* C21: after any sequence of constructions of MaskBaseDataset and its subclasses
\* the lists image_paths, mask_labels, gender_labels and age_labels have equal
\* length, and every position below the sample count holds, in each label list,
\* the label of the image at that position of image_paths.
C21_ParallelLists ==
    LET lists == FamilyLists
        n     == Len(lists.image_paths)
    IN  /\ Len(lists.mask_labels) = n
        /\ Len(lists.gender_labels) = n
        /\ Len(lists.age_labels) = n
        /\ \A k \in 1..n : DescribesImage(lists, k)

====
